---- MODULE Spec2Model ----
(***************************************************************************)
(* Weekly schedule editor of the school-management application: the        *)
(* Schedule page (sessions, dirty flag, drag and drop, session form,       *)
(* conflict detection) and the tenant store it saves to (schools in        *)
(* memory, IndexedDB, attendance records).                                 *)
(***************************************************************************)
EXTENDS Integers, Sequences, FiniteSets

VARIABLES
    sessions,            \* Schedule: useState<ScheduledSession[]>
    isDirty,             \* Schedule: useState(false)
    draggingSessionId,   \* Schedule: <<>> for null, <<id>> while dragging
    hoveredCell,         \* Schedule: <<>> for null, <<[day, time]>>
    isDropInvalid,       \* Schedule: useState(false)
    sessionToDelete,     \* Schedule: <<>> for null, <<id>>
    schools,             \* AppLogic: in-memory tenants, school id -> School
    db,                  \* IndexedDB object store, school id -> School
    nextId,              \* Schedule: identifiers its generateId has handed out
    nextAppId,           \* AppLogic: identifiers its generateId has handed out
    pending,             \* db.putSchool calls in flight, oldest first: [caller, school]
    rejected             \* rejection the last store call delivered: <<>> or <<caller>>

vars == <<sessions, isDirty, draggingSessionId, hoveredCell, isDropInvalid,
          sessionToDelete, schools, db, nextId, nextAppId, pending, rejected>>


-----------------------------------------------------------------------------
(* Bounds of the model *)

\* sessions drawn for the drag-and-drop specification
MaxProbe == 2
\* identifiers generateId may hand out in the editor specifications
MaxIds == 2
\* how many of GRANULAR_TIME_SLOTS the model offers, from 08:00 on
NumSlots == 2

-----------------------------------------------------------------------------
(* Strings are sequences of one-character strings *)

Digits == <<"0", "1", "2", "3", "4", "5", "6", "7", "8", "9">>

DigitVal(c) == CHOOSE d \in 0..9 : Digits[d + 1] = c

\* Number(str) for a string of decimal digits
RECURSIVE Number(_)
Number(str) ==
    IF str = <<>> THEN 0
    ELSE 10 * Number(SubSeq(str, 1, Len(str) - 1)) + DigitVal(str[Len(str)])

\* String(n) for a natural number
RECURSIVE NumToString(_)
NumToString(n) ==
    IF n < 10 THEN <<Digits[n + 1]>>
    ELSE NumToString(n \div 10) \o <<Digits[(n % 10) + 1]>>

\* String(n).padStart(2, '0')
PadStart2(n) == IF Len(NumToString(n)) < 2 THEN <<"0">> \o NumToString(n) ELSE NumToString(n)

RECURSIVE TrimStart(_)
TrimStart(str) ==
    IF str # <<>> /\ Head(str) = " " THEN TrimStart(Tail(str)) ELSE str

RECURSIVE TrimEnd(_)
TrimEnd(str) ==
    IF str # <<>> /\ str[Len(str)] = " "
    THEN TrimEnd(SubSeq(str, 1, Len(str) - 1)) ELSE str

\* String.prototype.trim
Trim(str) == TrimEnd(TrimStart(str))

LowerChar(c) ==
    CASE c = "A" -> "a"
      [] c = "B" -> "b"
      [] OTHER -> c

\* String.prototype.toLowerCase
ToLowerCase(str) == [i \in 1..Len(str) |-> LowerChar(str[i])]

-----------------------------------------------------------------------------
(* Constants and helpers of the Schedule page *)

DAYS_OF_WEEK ==
    <<"saturday", "sunday", "monday", "tuesday", "wednesday", "thursday", "friday">>

TIME_GRID_INTERVAL == 30

DURATION_OPTIONS == <<30, 45, 60, 90, 120, 150, 180, 210, 240>>

GRANULAR_TIME_SLOTS ==
    [i \in 0..((23 - 8) * (60 \div TIME_GRID_INTERVAL) - 1) |->
        LET totalMinutes == 8 * 60 + i * TIME_GRID_INTERVAL
            hour == totalMinutes \div 60
            minute == totalMinutes % 60
        IN  PadStart2(hour) \o <<":">> \o PadStart2(minute)]

\* position of the first ':' of a time string
ColonAt(time) == CHOOSE i \in 1..Len(time) :
                    time[i] = ":" /\ \A j \in 1..(i - 1) : time[j] # ":"

\* a conversion that counts from midnight
timeToMinutes_FromMidnight(time) ==
    IF time = <<>> THEN 0
    ELSE LET hour == Number(SubSeq(time, 1, ColonAt(time) - 1))
             minute == Number(SubSeq(time, ColonAt(time) + 1, Len(time)))
         IN  hour * 60 + minute

timeToMinutes(time) ==
    IF time = <<>> THEN 0
    ELSE LET hour == Number(SubSeq(time, 1, ColonAt(time) - 1))
             minute == Number(SubSeq(time, ColonAt(time) + 1, Len(time)))
         IN  (hour - 8) * 60 + minute

\* A duration is the number the type declares, [isString |-> FALSE, n |-> 60],
\* or the string a <select> hands to handleNewSessionChange,
\* [isString |-> TRUE, n |-> 60] for "60".
NumberDuration(n) == [isString |-> FALSE, n |-> n]
StringDuration(n) == [isString |-> TRUE, n |-> n]

\* start + duration as JavaScript computes it, read back as a number by the
\* comparisons that use it: numeric addition for a number, concatenation of
\* the decimal texts for a string.
PlusDuration(start, duration) ==
    IF duration.isString
    THEN Number(NumToString(start) \o NumToString(duration.n))
    ELSE start + duration.n

Undefined == "undefined"

Range(seq) == {seq[i] : i \in 1..Len(seq)}

\* allSessions.find(s => s.id === id): the first match, <<>> when there is none
FindSession(allSessions, id) ==
    IF \E i \in 1..Len(allSessions) : allSessions[i].id = id
    THEN <<allSessions[CHOOSE i \in 1..Len(allSessions) :
                /\ allSessions[i].id = id
                /\ \A j \in 1..(i - 1) : allSessions[j].id # id]>>
    ELSE <<>>

\* a comparison of the labels as they are typed
SameClassroom_Raw(a, b) == a = b /\ Trim(a) # <<>>

\* line 168: the labels agree after trim and lower-casing and are not blank
SameClassroom(a, b) ==
    /\ ToLowerCase(Trim(a)) = ToLowerCase(Trim(b))
    /\ Trim(a) # <<>>

\* an overlap test that also counts intervals that touch
IntervalsOverlap_Touching(newStart, newEnd, sessionStart, sessionEnd) ==
    newStart <= sessionEnd /\ newEnd >= sessionStart

\* line 166
IntervalsOverlap(newStart, newEnd, sessionStart, sessionEnd) ==
    newStart < sessionEnd /\ newEnd > sessionStart

\* a detector that knows rooms only
SharesResource_RoomOnly(session, draggedSession) ==
    SameClassroom(session.classroom, draggedSession.classroom)

\* lines 167-168: the same group, or the same classroom
SharesResource(session, draggedSession) ==
    \/ session.groupId = draggedSession.groupId
    \/ SameClassroom(session.classroom, draggedSession.classroom)

isConflict(draggedSessionId, newDay, newTimeSlot, allSessions) ==
    LET found == FindSession(allSessions, draggedSessionId) IN
    IF found = <<>> THEN FALSE
    ELSE
        LET draggedSession == found[1]
            newStart == timeToMinutes(newTimeSlot)
            newEnd == PlusDuration(newStart, draggedSession.duration)
        IN  \E i \in 1..Len(allSessions) :
                LET session == allSessions[i]
                    sessionStart == timeToMinutes(session.timeSlot)
                    sessionEnd == PlusDuration(sessionStart, session.duration)
                IN  /\ session.id # draggedSessionId
                    /\ session.day = newDay
                    /\ IntervalsOverlap(newStart, newEnd, sessionStart, sessionEnd)
                    /\ SharesResource(session, draggedSession)

-----------------------------------------------------------------------------
(* Input domains *)

Days == {DAYS_OF_WEEK[1], DAYS_OF_WEEK[2]}
Slots == {GRANULAR_TIME_SLOTS[i] : i \in 0..(NumSlots - 1)}
Cells == [day : Days, time : Slots]

SchoolId == "school1"
Groups == {"g1", "g2"}
SubjectIds == {"sub1"}
CourseIds == {"c1"}

\* classroom labels: equal up to case and blanks ("A", "a "), blank (" "), other ("b")
Classrooms == {<<"A">>, <<"a", " ">>, <<" ">>, <<"b">>}

\* the numbers the ScheduledSession type declares for duration
TypedDurations == {NumberDuration(DURATION_OPTIONS[1]), NumberDuration(DURATION_OPTIONS[2])}

Session(id, groupId, subjectId, courseId, day, timeSlot, classroom, duration) ==
    [id |-> id, groupId |-> groupId, subjectId |-> subjectId, courseId |-> courseId,
     day |-> day, timeSlot |-> timeSlot, classroom |-> classroom, duration |-> duration]

\* sessions of the declared type, without their id
TypedPlacements ==
    [groupId : Groups, subjectId : SubjectIds, courseId : {Undefined},
     day : Days, timeSlot : Slots, classroom : Classrooms, duration : TypedDurations]

WithId(p, id) ==
    Session(id, p.groupId, p.subjectId, p.courseId, p.day, p.timeSlot, p.classroom, p.duration)

\* the session lists of at most maxLen sessions, ids 1, 2, ... in list order
TypedSessionLists(maxLen) ==
    UNION {{[i \in 1..n |-> WithId(ps[i], i)] : ps \in [1..n -> TypedPlacements]}
            : n \in 0..maxLen}

-----------------------------------------------------------------------------
(* The tenant *)

School(scheduledSessions, attendance, subjects, courses) ==
    [id |-> SchoolId, scheduledSessions |-> scheduledSessions,
     attendance |-> attendance, subjects |-> subjects, courses |-> courses]

Colors == {"#bfdbfe", "#f5d0fe"}

\* the subjects and courses of the seed data the model keeps
InitialSubjects == <<[id |-> "sub1", classroom |-> <<"A">>, color |-> "#bfdbfe"]>>
InitialCourses == <<[id |-> "c1", color |-> "#f5d0fe"]>>

\* the school of the signed-in user: findSchool(currentUser.schoolId)
school == schools[SchoolId]

-----------------------------------------------------------------------------
(* Drag and drop *)

handleDragStart(session) ==
    /\ draggingSessionId = <<>>
    /\ draggingSessionId' = <<session.id>>
    /\ UNCHANGED <<sessions, isDirty, hoveredCell, isDropInvalid, sessionToDelete,
                   schools, db, nextId, nextAppId, pending, rejected>>

handleDragEnd ==
    /\ draggingSessionId # <<>>
    /\ draggingSessionId' = <<>>
    /\ hoveredCell' = <<>>
    /\ isDropInvalid' = FALSE
    /\ UNCHANGED <<sessions, isDirty, sessionToDelete, schools, db, nextId, nextAppId, pending, rejected>>

handleDragOver(day, timeSlot) ==
    /\ draggingSessionId # <<>>
    /\ isDropInvalid' = isConflict(draggingSessionId[1], day, timeSlot, sessions)
    /\ hoveredCell' = <<[day |-> day, time |-> timeSlot]>>
    /\ UNCHANGED <<sessions, isDirty, draggingSessionId, sessionToDelete,
                   schools, db, nextId, nextAppId, pending, rejected>>

handleDragLeave ==
    /\ draggingSessionId # <<>>
    /\ hoveredCell' = <<>>
    /\ isDropInvalid' = FALSE
    /\ UNCHANGED <<sessions, isDirty, draggingSessionId, sessionToDelete,
                   schools, db, nextId, nextAppId, pending, rejected>>

\* a move that takes the session out and appends it at its new place
MoveSession_Reappend(prevSessions, draggedSessionId, day, timeSlot) ==
    SelectSeq(prevSessions, LAMBDA s : s.id # draggedSessionId) \o
    [i \in 1..Len(SelectSeq(prevSessions, LAMBDA s : s.id = draggedSessionId)) |->
        [SelectSeq(prevSessions, LAMBDA s : s.id = draggedSessionId)[i]
            EXCEPT !.day = day, !.timeSlot = timeSlot]]

\* prevSessions.map(s => s.id === draggedSessionId ? { ...s, day, timeSlot } : s)
MoveSession(prevSessions, draggedSessionId, day, timeSlot) ==
    [i \in 1..Len(prevSessions) |->
        IF prevSessions[i].id = draggedSessionId
        THEN [prevSessions[i] EXCEPT !.day = day, !.timeSlot = timeSlot]
        ELSE prevSessions[i]]

\* a drop handler that forgets the conflict check
DropRejected_Unchecked(draggedSessionId, day, timeSlot) ==
    \/ FindSession(sessions, draggedSessionId) = <<>>
    \/ LET draggedSession == FindSession(sessions, draggedSessionId)[1]
       IN  draggedSession.day = day /\ draggedSession.timeSlot = timeSlot

DropRejected(draggedSessionId, day, timeSlot) ==
    \/ isConflict(draggedSessionId, day, timeSlot, sessions)
    \/ FindSession(sessions, draggedSessionId) = <<>>
    \/ LET draggedSession == FindSession(sessions, draggedSessionId)[1]
       IN  draggedSession.day = day /\ draggedSession.timeSlot = timeSlot

handleDrop(draggedSessionId, day, timeSlot) ==
    /\ sessionToDelete = <<>>
    /\ hoveredCell' = <<>>
    /\ isDropInvalid' = FALSE
    /\ IF DropRejected(draggedSessionId, day, timeSlot)
       THEN UNCHANGED <<sessions, isDirty>>
       ELSE /\ sessions' = MoveSession(sessions, draggedSessionId, day, timeSlot)
            /\ isDirty' = TRUE
    /\ UNCHANGED <<draggingSessionId, sessionToDelete, schools, db, nextId, nextAppId, pending, rejected>>

-----------------------------------------------------------------------------
(* The tenant store: AppLogic *)

\* a save that drops the attendance of the sessions it no longer lists
updateScheduleMod_Cascade(s, newSessions) ==
    [s EXCEPT !.scheduledSessions = newSessions,
              !.attendance = SelectSeq(s.attendance,
                    LAMBDA att : \E i \in 1..Len(newSessions) :
                                    newSessions[i].id = att.sessionId)]

\* s => ({ ...s, scheduledSessions: sessions })
updateScheduleMod(s, newSessions) == [s EXCEPT !.scheduledSessions = newSessions]

\* s => ({ ...s, subjects: s.subjects.map(sub => sub.id === subject.id ? subject : sub) })
updateSubjectMod(s, subject) ==
    [s EXCEPT !.subjects =
        [i \in 1..Len(s.subjects) |->
            IF s.subjects[i].id = subject.id THEN subject ELSE s.subjects[i]]]

\* s => ({ ...s, courses: s.courses.map(c => c.id === course.id ? course : c) })
updateCourseMod(s, course) ==
    [s EXCEPT !.courses =
        [i \in 1..Len(s.courses) |->
            IF s.courses[i].id = course.id THEN course ELSE s.courses[i]]]

SameTriple(att, record) ==
    /\ att.studentId = record.studentId
    /\ att.sessionId = record.sessionId
    /\ att.date = record.date

\* a search of the stored list, blind to the records this batch has pushed
FindIndex_Stored(newAttendance, record) ==
    LET stored == schools[SchoolId].attendance IN
    IF \E i \in 1..Len(stored) : SameTriple(stored[i], record)
    THEN CHOOSE i \in 1..Len(stored) : SameTriple(stored[i], record)
    ELSE 0

\* newAttendance.findIndex(att => ...): the first match, 0 when there is none
FindIndex(newAttendance, record) ==
    IF \E i \in 1..Len(newAttendance) : SameTriple(newAttendance[i], record)
    THEN CHOOSE i \in 1..Len(newAttendance) :
            /\ SameTriple(newAttendance[i], record)
            /\ \A j \in 1..(i - 1) : ~SameTriple(newAttendance[j], record)
    ELSE 0

\* an upsert that replaces the matching record by a new one
UpsertRecord_Replace(newAttendance, record, used) ==
    LET existingIndex == FindIndex(newAttendance, record)
        fresh == [id |-> used + 1, studentId |-> record.studentId,
                  sessionId |-> record.sessionId, date |-> record.date,
                  status |-> record.status]
    IN  IF existingIndex > 0
        THEN [newAttendance EXCEPT ![existingIndex] = fresh]
        ELSE Append(newAttendance, fresh)

\* one turn of records.forEach: overwrite the status of the match, or push the
\* record under the next identifier of generateId
UpsertRecord(newAttendance, record, used) ==
    LET existingIndex == FindIndex(newAttendance, record) IN
    IF existingIndex > 0
    THEN [newAttendance EXCEPT ![existingIndex].status = record.status]
    ELSE Append(newAttendance,
                [id |-> used + 1, studentId |-> record.studentId,
                 sessionId |-> record.sessionId, date |-> record.date,
                 status |-> record.status])

\* the identifiers the forEach has used after one more record
UsedAfter(newAttendance, record, used) ==
    IF FindIndex(newAttendance, record) > 0 THEN used ELSE used + 1

RECURSIVE UpsertAll(_, _, _)
UpsertAll(newAttendance, records, used) ==
    IF records = <<>> THEN newAttendance
    ELSE UpsertAll(UpsertRecord(newAttendance, Head(records), used),
                   Tail(records),
                   UsedAfter(newAttendance, Head(records), used))

RECURSIVE UsedAfterAll(_, _, _)
UsedAfterAll(newAttendance, records, used) ==
    IF records = <<>> THEN used
    ELSE UsedAfterAll(UpsertRecord(newAttendance, Head(records), used),
                      Tail(records),
                      UsedAfter(newAttendance, Head(records), used))

\* school => { ...school, attendance: newAttendance }
recordAttendanceMod(s, records, used) ==
    [s EXCEPT !.attendance = UpsertAll(s.attendance, records, used)]

\* db.putSchool resolved and setSchools applied: the stored and the in-memory
\* tenant are replaced by the modified school
modifySchool(schoolId, modifiedSchool) ==
    /\ schoolId \in DOMAIN schools
    /\ db' = [db EXCEPT ![schoolId] = modifiedSchool]
    /\ schools' = [schools EXCEPT ![schoolId] = modifiedSchool]
    /\ rejected' = <<>>

\* useEffect(..., [school]) of the Schedule page, run for the new school object
\* of the tenant: the editor is reloaded from it
ResyncedSessions(newSchool) == newSchool.scheduledSessions

-----------------------------------------------------------------------------
(* The Schedule page: save, attendance, session form, duplicate, delete *)

NoModal == sessionToDelete = <<>>

\* handleSave with db.putSchool resolving: updateSchedule, then the effect on
\* the new school and setIsDirty(false)
handleSave ==
    /\ NoModal
    /\ isDirty
    /\ modifySchool(SchoolId, updateScheduleMod(school, sessions))
    /\ sessions' = ResyncedSessions(updateScheduleMod(school, sessions))
    /\ isDirty' = FALSE
    /\ UNCHANGED <<draggingSessionId, hoveredCell, isDropInvalid, sessionToDelete,
                   nextId, nextAppId, pending>>

\* handleSave with db.putSchool rejecting: modifySchool throws before
\* setSchools, handleSave before setIsDirty(false)
handleSaveRejected ==
    /\ NoModal
    /\ isDirty
    /\ rejected' = <<"handleSave">>
    /\ UNCHANGED <<sessions, isDirty, draggingSessionId, hoveredCell, isDropInvalid,
                   sessionToDelete, schools, db, nextId, nextAppId, pending>>

\* recordAttendance of AppLogic with db.putSchool resolving, and the [school]
\* effect of the mounted Schedule page on the new school object
recordAttendance(schoolId, records) ==
    /\ LET modified == recordAttendanceMod(schools[schoolId], records, nextAppId) IN
        /\ modifySchool(schoolId, modified)
        /\ sessions' = ResyncedSessions(modified)
        /\ isDirty' = FALSE
    /\ nextAppId' = UsedAfterAll(schools[schoolId].attendance, records, nextAppId)
    /\ UNCHANGED <<draggingSessionId, hoveredCell, isDropInvalid, sessionToDelete,
                   nextId, pending>>

\* handleSaveAttendance for the attendance modal of `session`, attendanceData
\* holding `records` (one per marked student)
handleSaveAttendance(session, records) ==
    /\ NoModal
    /\ records # <<>>
    /\ \A i \in 1..Len(records) : records[i].sessionId = session.id
    /\ recordAttendance(SchoolId, records)

\* the entity a form names, <<>> when the school has none of that id
FindEntity(entities, entityId) ==
    IF \E i \in 1..Len(entities) : entities[i].id = entityId
    THEN <<entities[CHOOSE i \in 1..Len(entities) : entities[i].id = entityId]>>
    ELSE <<>>

FormEntity(data) ==
    IF data.entityType = "subject"
    THEN FindEntity(school.subjects, data.entityId)
    ELSE FindEntity(school.courses, data.entityId)

\* a validation that forgets the group
FormIncomplete_NoGroup(data) ==
    \/ data.entityId = ""
    \/ data.day = ""
    \/ data.timeSlot = <<>>
    \/ data.classroom = <<>>

\* the submit stops at the fillAllFields toast
FormIncomplete(data) ==
    \/ data.entityId = ""
    \/ data.day = ""
    \/ data.timeSlot = <<>>
    \/ data.classroom = <<>>
    \/ data.groupId = ""

\* the submit awaits updateSubject or updateCourse
ColorChanged(data) ==
    /\ FormEntity(data) # <<>>
    /\ FormEntity(data)[1].color # data.color

ColorMod(data) ==
    IF data.entityType = "subject"
    THEN updateSubjectMod(school, [FormEntity(data)[1] EXCEPT !.color = data.color])
    ELSE updateCourseMod(school, [FormEntity(data)[1] EXCEPT !.color = data.color])

\* an edit branch that sets the new reference and forgets to delete the other
UpdatedSession_Stale(sessionToEdit, data) ==
    Session(sessionToEdit.id, data.groupId,
            IF data.entityType = "subject" THEN data.entityId ELSE sessionToEdit.subjectId,
            IF data.entityType = "subject" THEN sessionToEdit.courseId ELSE data.entityId,
            data.day, data.timeSlot, data.classroom, data.duration)

\* the session the edit branch builds from the modal's session and the form
UpdatedSession(sessionToEdit, data) ==
    Session(sessionToEdit.id, data.groupId,
            IF data.entityType = "subject" THEN data.entityId ELSE Undefined,
            IF data.entityType = "subject" THEN Undefined ELSE data.entityId,
            data.day, data.timeSlot, data.classroom, data.duration)

\* the session the add branch builds
NewSession(id, data) ==
    Session(id, data.groupId,
            IF data.entityType = "subject" THEN data.entityId ELSE Undefined,
            IF data.entityType = "subject" THEN Undefined ELSE data.entityId,
            data.day, data.timeSlot, data.classroom, data.duration)

\* prev => prev.map(s => s.id === sessionToEdit.id ? updatedSession : s)
ReplaceSession(prev, updatedSession) ==
    [i \in 1..Len(prev) |->
        IF prev[i].id = updatedSession.id THEN updatedSession ELSE prev[i]]

\* the functional update the submit hands to setSessions
FormUpdate(prev, mode, sessionToEdit, data, id) ==
    IF mode = "edit"
    THEN ReplaceSession(prev, UpdatedSession(sessionToEdit, data))
    ELSE Append(prev, NewSession(id, data))

\* handleSessionFormSubmit for the modal in `mode` (on `sessionToEdit` when
\* editing) holding `data`. When the colour differs the entity is persisted
\* first and the school object replaced; effectFirst tells whether the
\* [school] effect runs before the handler's own setSessions and
\* setIsDirty(true) or after them.
handleSessionFormSubmit(mode, sessionToEdit, data, effectFirst) ==
    /\ NoModal
    /\ mode = "add" => nextId < MaxIds
    /\ IF FormIncomplete(data)
       THEN UNCHANGED <<sessions, isDirty, schools, db, nextId, rejected>>
       ELSE /\ nextId' = IF mode = "add" THEN nextId + 1 ELSE nextId
            /\ IF ColorChanged(data)
               THEN /\ modifySchool(SchoolId, ColorMod(data))
                    /\ IF effectFirst
                       THEN /\ sessions' = FormUpdate(ResyncedSessions(ColorMod(data)),
                                                      mode, sessionToEdit, data, nextId + 1)
                            /\ isDirty' = TRUE
                       ELSE /\ sessions' = ResyncedSessions(ColorMod(data))
                            /\ isDirty' = FALSE
               ELSE /\ sessions' = FormUpdate(sessions, mode, sessionToEdit, data, nextId + 1)
                    /\ isDirty' = TRUE
                    /\ UNCHANGED <<schools, db, rejected>>
    /\ UNCHANGED <<draggingSessionId, hoveredCell, isDropInvalid, sessionToDelete,
                   nextAppId, pending>>

\* a copy that keeps the identifier of its original
handleDuplicateSession_SameId(sessionId) ==
    /\ NoModal
    /\ nextId < MaxIds
    /\ IF FindSession(sessions, sessionId) # <<>>
       THEN /\ sessions' = Append(sessions, FindSession(sessions, sessionId)[1])
            /\ isDirty' = TRUE
            /\ nextId' = nextId + 1
       ELSE UNCHANGED <<sessions, isDirty, nextId>>
    /\ UNCHANGED <<draggingSessionId, hoveredCell, isDropInvalid, sessionToDelete,
                   schools, db, nextAppId, pending, rejected>>

handleDuplicateSession(sessionId) ==
    /\ NoModal
    /\ nextId < MaxIds
    /\ IF FindSession(sessions, sessionId) # <<>>
       THEN /\ sessions' = Append(sessions,
                                  [FindSession(sessions, sessionId)[1] EXCEPT !.id = nextId + 1])
            /\ isDirty' = TRUE
            /\ nextId' = nextId + 1
       ELSE UNCHANGED <<sessions, isDirty, nextId>>
    /\ UNCHANGED <<draggingSessionId, hoveredCell, isDropInvalid, sessionToDelete,
                   schools, db, nextAppId, pending, rejected>>

openDeleteConfirmation(sessionId) ==
    /\ NoModal
    /\ sessionToDelete' = <<sessionId>>
    /\ UNCHANGED <<sessions, isDirty, draggingSessionId, hoveredCell, isDropInvalid,
                   schools, db, nextId, nextAppId, pending, rejected>>

closeDeleteConfirmation ==
    /\ sessionToDelete # <<>>
    /\ sessionToDelete' = <<>>
    /\ UNCHANGED <<sessions, isDirty, draggingSessionId, hoveredCell, isDropInvalid,
                   schools, db, nextId, nextAppId, pending, rejected>>

\* prev => prev.filter(s => s.id !== sessionToDelete)
WithoutSession(prev, id) == SelectSeq(prev, LAMBDA s : s.id # id)

confirmDeleteSession ==
    /\ sessionToDelete # <<>>
    /\ sessions' = WithoutSession(sessions, sessionToDelete[1])
    /\ isDirty' = TRUE
    /\ sessionToDelete' = <<>>
    /\ UNCHANGED <<draggingSessionId, hoveredCell, isDropInvalid,
                   schools, db, nextId, nextAppId, pending, rejected>>

-----------------------------------------------------------------------------
(* Drag and drop over every list of typed sessions *)

InitDrag ==
    /\ sessions \in TypedSessionLists(MaxProbe)
    /\ isDirty = FALSE
    /\ draggingSessionId = <<>>
    /\ hoveredCell = <<>>
    /\ isDropInvalid = FALSE
    /\ sessionToDelete = <<>>
    /\ schools = [id \in {SchoolId} |->
                    School(sessions, <<>>, InitialSubjects, InitialCourses)]
    /\ db = schools
    /\ nextId = Len(sessions)
    /\ nextAppId = 0
    /\ pending = <<>>
    /\ rejected = <<>>

NextDrag ==
    \/ \E s \in Range(sessions) : handleDragStart(s)
    \/ \E c \in Cells : handleDragOver(c.day, c.time)
    \/ handleDragLeave
    \/ handleDragEnd

SpecDrag == InitDrag /\ [][NextDrag]_vars

-----------------------------------------------------------------------------
(* The whole page over a small form: one subject, one group, one classroom *)

FirstSlots == {GRANULAR_TIME_SLOTS[0], GRANULAR_TIME_SLOTS[1]}

\* newSessionData as handleOpenScheduleModal leaves duration: the number 60
DefaultDuration == NumberDuration(DURATION_OPTIONS[3])

SmallForms ==
    [entityType : {"subject"}, entityId : SubjectIds, day : Days, timeSlot : FirstSlots,
     classroom : {<<"A">>}, duration : {DefaultDuration}, groupId : {"g1"},
     color : Colors]

Students == {"st1"}
Today == "2024-05-10"
Statuses == {"present", "absent", "late", "excused"}

\* attendanceData of the modal of `session`: one status per marked student
AttendanceRecord(studentId, sessionId, date, status) ==
    [studentId |-> studentId, sessionId |-> sessionId, date |-> date, status |-> status]

SmallAttendanceData(session) ==
    {<<AttendanceRecord(st, session.id, Today, status)>> :
        st \in Students, status \in {"present", "absent"}}

InitialSchool == School(<<>>, <<>>, InitialSubjects, InitialCourses)

Init ==
    /\ sessions = InitialSchool.scheduledSessions
    /\ isDirty = FALSE
    /\ draggingSessionId = <<>>
    /\ hoveredCell = <<>>
    /\ isDropInvalid = FALSE
    /\ sessionToDelete = <<>>
    /\ schools = [id \in {SchoolId} |-> InitialSchool]
    /\ db = schools
    /\ nextId = 0
    /\ nextAppId = 0
    /\ pending = <<>>
    /\ rejected = <<>>

SessionIds == 1..MaxIds

Next ==
    \/ \E data \in SmallForms, effectFirst \in BOOLEAN :
            handleSessionFormSubmit("add", <<>>, data, effectFirst)
    \/ \E s \in Range(sessions), data \in SmallForms, effectFirst \in BOOLEAN :
            handleSessionFormSubmit("edit", s, data, effectFirst)
    \/ \E s \in Range(sessions) : handleDuplicateSession(s.id)
    \/ \E s \in Range(sessions) : openDeleteConfirmation(s.id)
    \/ closeDeleteConfirmation
    \/ confirmDeleteSession
    \/ \E id \in SessionIds, c \in [day : Days, time : FirstSlots] :
            handleDrop(id, c.day, c.time)
    \/ handleSave
    \/ handleSaveRejected
    \/ \E s \in Range(sessions) : \E records \in SmallAttendanceData(s) :
            handleSaveAttendance(s, records)

Spec == Init /\ [][Next]_vars

-----------------------------------------------------------------------------
(* The editor alone over a wider form: no save, no attendance *)

\* the form after the entity select: a subject brings its classroom, a course
\* leaves the classroom to the user; the colour is the entity's own
EntityChoices ==
    {[entityType |-> "subject", entityId |-> "sub1", classroom |-> <<"A">>,
      color |-> "#bfdbfe"],
     [entityType |-> "course", entityId |-> "c1", classroom |-> <<"b">>,
      color |-> "#f5d0fe"]}

\* the duration select left alone, or set to the first option: a string
DurationChoices == {DefaultDuration, StringDuration(DURATION_OPTIONS[1])}

Form(entity, day, timeSlot, duration, groupId) ==
    [entityType |-> entity.entityType, entityId |-> entity.entityId, day |-> day,
     timeSlot |-> timeSlot, classroom |-> entity.classroom, duration |-> duration,
     groupId |-> groupId, color |-> entity.color]

CompleteForms ==
    {Form(e, c.day, c.time, d, g) : e \in EntityChoices, c \in Cells,
                                    d \in DurationChoices, g \in Groups}

BaseForm ==
    Form(CHOOSE e \in EntityChoices : e.entityType = "subject",
         DAYS_OF_WEEK[1], GRANULAR_TIME_SLOTS[0], DefaultDuration, "g1")

\* one required field left empty, the colour kept or changed
IncompleteForms ==
    {[f EXCEPT !.color = c] :
        c \in Colors,
        f \in {[BaseForm EXCEPT !.entityId = ""], [BaseForm EXCEPT !.day = ""],
               [BaseForm EXCEPT !.timeSlot = <<>>], [BaseForm EXCEPT !.classroom = <<>>],
               [BaseForm EXCEPT !.groupId = ""]}}

WideForms == CompleteForms \cup IncompleteForms

NextEdit ==
    \/ \E data \in WideForms : handleSessionFormSubmit("add", <<>>, data, TRUE)
    \/ \E s \in Range(sessions), data \in WideForms :
            handleSessionFormSubmit("edit", s, data, TRUE)
    \/ \E s \in Range(sessions) : handleDuplicateSession(s.id)
    \/ \E s \in Range(sessions) : openDeleteConfirmation(s.id)
    \/ closeDeleteConfirmation
    \/ confirmDeleteSession
    \/ \E id \in SessionIds, c \in Cells : handleDrop(id, c.day, c.time)

SpecEdit == Init /\ [][NextEdit]_vars

-----------------------------------------------------------------------------
(* recordAttendance over every batch of a few records *)

\* records a batch may hold
MaxBatch == 2

BatchRecords ==
    {AttendanceRecord(st, 1, date, status) :
        st \in {"st1", "st2"}, date \in {Today, "2024-05-11"},
        status \in {"present", "absent"}}

Batches == UNION {[1..n -> BatchRecords] : n \in 1..MaxBatch}

NextAttendance == \E records \in Batches : recordAttendance(SchoolId, records)

SpecAttendance == Init /\ [][NextAttendance]_vars

-----------------------------------------------------------------------------
(* The store call in flight: modifySchool between its call of db.putSchool  *)
(* and the settling of that promise                                         *)

\* modifySchool up to `await db.putSchool(modifiedSchool)`: the modified school
\* is computed from the schools of the closure and handed to the store
modifySchoolCall(caller, schoolId, modifiedSchool) ==
    /\ schoolId \in DOMAIN schools
    /\ pending = <<>>
    /\ pending' = <<[caller |-> caller, school |-> modifiedSchool]>>
    /\ rejected' = <<>>

\* handleSave up to its await of updateSchedule
handleSaveCall ==
    /\ NoModal
    /\ isDirty
    /\ modifySchoolCall("handleSave", SchoolId, updateScheduleMod(school, sessions))
    /\ UNCHANGED <<sessions, isDirty, draggingSessionId, hoveredCell, isDropInvalid,
                   sessionToDelete, schools, db, nextId, nextAppId>>

\* identifiers the store's generateId may hand out to calls in flight
MaxAppIds == 2

\* handleSaveAttendance up to its await of recordAttendance; generateId has
\* run for the records the modification pushed
handleSaveAttendanceCall(session, records) ==
    /\ NoModal
    /\ nextAppId < MaxAppIds
    /\ records # <<>>
    /\ \A i \in 1..Len(records) : records[i].sessionId = session.id
    /\ modifySchoolCall("handleSaveAttendance", SchoolId,
                        recordAttendanceMod(school, records, nextAppId))
    /\ nextAppId' = UsedAfterAll(school.attendance, records, nextAppId)
    /\ UNCHANGED <<sessions, isDirty, draggingSessionId, hoveredCell, isDropInvalid,
                   sessionToDelete, schools, db, nextId>>

\* request.onsuccess: putSchool resolves, modifySchool runs setSchools, the
\* caller continues (handleSave: setIsDirty(false)) and the [school] effect of
\* the page reloads the editor from the new school object
putSchoolResolves ==
    /\ pending # <<>>
    /\ db' = [db EXCEPT ![pending[1].school.id] = pending[1].school]
    /\ schools' = [schools EXCEPT ![pending[1].school.id] = pending[1].school]
    /\ sessions' = ResyncedSessions(pending[1].school)
    /\ isDirty' = FALSE
    /\ pending' = Tail(pending)
    /\ rejected' = <<>>
    /\ UNCHANGED <<draggingSessionId, hoveredCell, isDropInvalid, sessionToDelete,
                   nextId, nextAppId>>

\* a modifySchool that catches the rejection and carries on
putSchoolRejects_Swallowed ==
    /\ pending # <<>>
    /\ schools' = [schools EXCEPT ![pending[1].school.id] = pending[1].school]
    /\ sessions' = ResyncedSessions(pending[1].school)
    /\ isDirty' = FALSE
    /\ pending' = Tail(pending)
    /\ rejected' = <<>>
    /\ UNCHANGED <<draggingSessionId, hoveredCell, isDropInvalid, sessionToDelete,
                   db, nextId, nextAppId>>

\* request.onerror: putSchool rejects, modifySchool throws at its await before
\* setSchools, and so does the caller at its own await: nothing is stored,
\* nothing is set, the rejection is the caller's
putSchoolRejects ==
    /\ pending # <<>>
    /\ pending' = Tail(pending)
    /\ rejected' = <<pending[1].caller>>
    /\ UNCHANGED <<sessions, isDirty, draggingSessionId, hoveredCell, isDropInvalid,
                   sessionToDelete, schools, db, nextId, nextAppId>>

\* forms that keep the colour of their entity: no store call on submit
PlainForms == {data \in SmallForms : ~ColorChanged(data)}

NextAsync ==
    \/ \E data \in PlainForms : handleSessionFormSubmit("add", <<>>, data, TRUE)
    \/ \E s \in Range(sessions) : handleDuplicateSession(s.id)
    \/ \E s \in Range(sessions) : openDeleteConfirmation(s.id)
    \/ confirmDeleteSession
    \/ handleSaveCall
    \/ \E s \in Range(sessions) : \E records \in SmallAttendanceData(s) :
            handleSaveAttendanceCall(s, records)
    \/ putSchoolResolves
    \/ putSchoolRejects

SpecAsync == Init /\ [][NextAsync]_vars

-----------------------------------------------------------------------------
(* Subjects and courses added with their weekly occurrences (Courses page), *)
(* and the editor over forms that switch between subject and course         *)

\* `id_...` of the store's generateId as an entity id
AppIdNames == <<"id_1", "id_2", "id_3", "id_4", "id_5", "id_6">>

\* `id_...` of the store's generateId as a session id: apart from the `ss_...`
\* identifiers 1, 2, ... the Schedule page hands out
AppSessionId(n) == 0 - n

\* { ...session, id: generateId(), subjectId / courseId: the new entity's id }
OccurrenceSession(occurrence, id, subjectId, courseId) ==
    Session(id, occurrence.groupId, subjectId, courseId, occurrence.day,
            occurrence.timeSlot, occurrence.classroom, occurrence.duration)

\* newSessions after sessionData.forEach, the new entity holding identifier
\* used + 1 and the pushed sessions the following ones
WithOccurrences(scheduledSessions, sessionData, used, isSubject) ==
    scheduledSessions \o
    [k \in 1..Len(sessionData) |->
        OccurrenceSession(sessionData[k], AppSessionId(used + 1 + k),
                          IF isSubject THEN AppIdNames[used + 1] ELSE Undefined,
                          IF isSubject THEN Undefined ELSE AppIdNames[used + 1])]

\* a modification that adds the subject and leaves its occurrences to a later
\* call
addSubjectMod_EntityOnly(s, subject, sessionData, used) ==
    [s EXCEPT !.subjects = Append(s.subjects,
                    [id |-> AppIdNames[used + 1], classroom |-> subject.classroom,
                     color |-> subject.color])]

addSubjectMod(s, subject, sessionData, used) ==
    [s EXCEPT !.subjects = Append(s.subjects,
                    [id |-> AppIdNames[used + 1], classroom |-> subject.classroom,
                     color |-> subject.color]),
              !.scheduledSessions = WithOccurrences(s.scheduledSessions, sessionData,
                                                    used, TRUE)]

addCourseMod(s, course, sessionData, used) ==
    [s EXCEPT !.courses = Append(s.courses,
                    [id |-> AppIdNames[used + 1], color |-> course.color]),
              !.scheduledSessions = WithOccurrences(s.scheduledSessions, sessionData,
                                                    used, FALSE)]

\* the Schedule page mounted after a visit of another page: fresh useState
\* values, then the [school] effect
ScheduleMounted(newSchool) ==
    /\ sessions' = ResyncedSessions(newSchool)
    /\ isDirty' = FALSE
    /\ draggingSessionId' = <<>>
    /\ hoveredCell' = <<>>
    /\ isDropInvalid' = FALSE
    /\ sessionToDelete' = <<>>

\* identifiers the store's generateId may hand out to new entities and their
\* occurrences
MaxEntityIds == 3

\* addSubject of AppLogic, called by the Courses page, db.putSchool resolving
addSubject(schoolId, subject, sessionData) ==
    /\ nextAppId + 1 + Len(sessionData) <= MaxEntityIds
    /\ LET modified == addSubjectMod(schools[schoolId], subject, sessionData, nextAppId) IN
        /\ modifySchool(schoolId, modified)
        /\ ScheduleMounted(modified)
    /\ nextAppId' = nextAppId + 1 + Len(sessionData)
    /\ UNCHANGED <<nextId, pending>>

\* addCourse of AppLogic, db.putSchool resolving
addCourse(schoolId, course, sessionData) ==
    /\ nextAppId + 1 + Len(sessionData) <= MaxEntityIds
    /\ LET modified == addCourseMod(schools[schoolId], course, sessionData, nextAppId) IN
        /\ modifySchool(schoolId, modified)
        /\ ScheduleMounted(modified)
    /\ nextAppId' = nextAppId + 1 + Len(sessionData)
    /\ UNCHANGED <<nextId, pending>>

\* the rows of the occurrence table that pass the filter of handleSubjectSubmit
Occurrences ==
    {[day |-> DAYS_OF_WEEK[1], timeSlot |-> GRANULAR_TIME_SLOTS[0],
      classroom |-> <<"A">>, duration |-> DefaultDuration, groupId |-> "g1"]}

\* sessionData: undefined, one occurrence, or the same occurrence and one of
\* another group half an hour later
OccurrenceLists ==
    {<<>>} \cup {<<o>> : o \in Occurrences}
           \cup {<<o, [o EXCEPT !.timeSlot = GRANULAR_TIME_SLOTS[1], !.groupId = "g2"]>> :
                    o \in Occurrences}

\* a form per entity kind, the colour of the entity kept
SwitchForms ==
    {Form(e, DAYS_OF_WEEK[1], t, DefaultDuration, "g1") :
        e \in EntityChoices, t \in FirstSlots}

NextEntities ==
    \/ \E data \in SwitchForms : handleSessionFormSubmit("add", <<>>, data, TRUE)
    \/ \E s \in Range(sessions), data \in SwitchForms :
            handleSessionFormSubmit("edit", s, data, TRUE)
    \/ \E s \in Range(sessions) : handleDuplicateSession(s.id)
    \/ \E s \in Range(sessions) : openDeleteConfirmation(s.id)
    \/ confirmDeleteSession
    \/ \E s \in Range(sessions), t \in FirstSlots :
            handleDrop(s.id, DAYS_OF_WEEK[2], t)
    \/ \E sessionData \in OccurrenceLists :
            addSubject(SchoolId, [classroom |-> <<"A">>, color |-> "#dbeafe"], sessionData)
    \/ \E sessionData \in OccurrenceLists :
            addCourse(SchoolId, [color |-> "#dbeafe"], sessionData)

SpecEntities == Init /\ [][NextEntities]_vars

\* addSubject and addCourse alone, over every stored list of typed sessions
NextOccurrences ==
    \/ \E sessionData \in OccurrenceLists :
            addSubject(SchoolId, [classroom |-> <<"A">>, color |-> "#dbeafe"], sessionData)
    \/ \E sessionData \in OccurrenceLists :
            addCourse(SchoolId, [color |-> "#dbeafe"], sessionData)

SpecOccurrences == InitDrag /\ [][NextOccurrences]_vars

-----------------------------------------------------------------------------
(* The layout pass: overlap groups, columns, geometry *)

\* { ...s, start: timeToMinutes(s.timeSlot), end: timeToMinutes(s.timeSlot) + s.duration }
EnrichedSession(s) ==
    [id |-> s.id, groupId |-> s.groupId, day |-> s.day,
     start |-> timeToMinutes(s.timeSlot),
     end |-> PlusDuration(timeToMinutes(s.timeSlot), s.duration),
     duration |-> s.duration]

\* allSessions.forEach(other => ...) for the popped `current`, from index i on;
\* acc holds group, toProcess and processed
RECURSIVE VisitOthers(_, _, _, _)
VisitOthers(current, allSessions, i, acc) ==
    IF i > Len(allSessions) THEN acc
    ELSE LET other == allSessions[i]
             hit == /\ current.id # other.id
                    /\ current.start < other.end
                    /\ current.end > other.start
                    /\ other.id \notin acc.processed
         IN  VisitOthers(current, allSessions, i + 1,
                IF hit
                THEN [group |-> Append(acc.group, other),
                      toProcess |-> Append(acc.toProcess, other),
                      processed |-> acc.processed \cup {other.id}]
                ELSE acc)

\* while (toProcess.length > 0) { const current = toProcess.pop(); ... }
RECURSIVE GroupLoop(_, _)
GroupLoop(acc, allSessions) ==
    IF acc.toProcess = <<>> THEN acc.group
    ELSE LET n == Len(acc.toProcess)
             current == acc.toProcess[n]
             popped == [acc EXCEPT !.toProcess = SubSeq(acc.toProcess, 1, n - 1)]
         IN  GroupLoop(VisitOthers(current, allSessions, 1, popped), allSessions)

\* a grouping that takes only the sessions overlapping the start session
findOverlappingGroup_Direct(startSession, allSessions) ==
    VisitOthers(startSession, allSessions, 1,
                [group |-> <<startSession>>, toProcess |-> <<>>,
                 processed |-> {startSession.id}]).group

findOverlappingGroup(startSession, allSessions) ==
    GroupLoop([group |-> <<startSession>>, toProcess |-> <<startSession>>,
               processed |-> {startSession.id}], allSessions)

\* x put behind the sessions that start no later: the stable order of
\* group.sort((a, b) => a.start - b.start)
InsertByStart(sorted, x) ==
    LET k == Cardinality({j \in 1..Len(sorted) : sorted[j].start <= x.start})
    IN  SubSeq(sorted, 1, k) \o <<x>> \o SubSeq(sorted, k + 1, Len(sorted))

RECURSIVE SortByStart(_)
SortByStart(group) ==
    IF group = <<>> THEN <<>>
    ELSE InsertByStart(SortByStart(SubSeq(group, 1, Len(group) - 1)), group[Len(group)])

\* Map.prototype.set
MapSet(map, key, value) ==
    [k \in DOMAIN map \cup {key} |-> IF k = key THEN value ELSE map[k]]

\* a fit test against the start of the last session instead of its end
FirstFit_LastStart(columns, session) ==
    IF \E i \in 1..Len(columns) : session.start >= columns[i][Len(columns[i])].start
    THEN CHOOSE i \in 1..Len(columns) :
            /\ session.start >= columns[i][Len(columns[i])].start
            /\ \A j \in 1..(i - 1) :
                    ~(session.start >= columns[j][Len(columns[j])].start)
    ELSE 0

\* a pass that never reuses a column
FirstFit_Never(columns, session) == 0

\* the first column whose last session has ended when `session` starts, as a
\* position from 1; 0 when no column fits
FirstFit(columns, session) ==
    IF \E i \in 1..Len(columns) : session.start >= columns[i][Len(columns[i])].end
    THEN CHOOSE i \in 1..Len(columns) :
            /\ session.start >= columns[i][Len(columns[i])].end
            /\ \A j \in 1..(i - 1) :
                    ~(session.start >= columns[j][Len(columns[j])].end)
    ELSE 0

\* one turn of `for (const session of group)`
PlaceSession(acc, session) ==
    LET i == FirstFit(acc.columns, session) IN
    IF i > 0
    THEN [columns |-> [acc.columns EXCEPT ![i] = Append(@, session)],
          sessionColumns |-> MapSet(acc.sessionColumns, session.id, i - 1)]
    ELSE [columns |-> Append(acc.columns, <<session>>),
          sessionColumns |-> MapSet(acc.sessionColumns, session.id, Len(acc.columns))]

RECURSIVE PlaceAll(_, _, _)
PlaceAll(sorted, i, acc) ==
    IF i > Len(sorted) THEN acc
    ELSE PlaceAll(sorted, i + 1, PlaceSession(acc, sorted[i]))

layoutGroup(group) ==
    LET placed == PlaceAll(SortByStart(group), 1,
                           [columns |-> <<>>, sessionColumns |-> <<>>])
    IN  [maxColumns |-> Len(placed.columns), sessionColumns |-> placed.sessionColumns]

\* JavaScript numbers that are not integers, kept as exact reduced fractions
RECURSIVE Gcd(_, _)
Gcd(a, b) == IF b = 0 THEN a ELSE Gcd(b, a % b)

Frac(n, d) == [num |-> n \div Gcd(n, d), den |-> d \div Gcd(n, d)]

FracTimes(k, f) == Frac(k * f.num, f.den)

FracMinus(f, g) == Frac(f.num * g.den - g.num * f.den, f.den * g.den)

\* const minuteToPx = (40 / TIME_GRID_INTERVAL)
minuteToPx == Frac(40, TIME_GRID_INTERVAL)

\* displayedSessions.filter(s => s.day === day).map(s => ({ ...s, start, end }))
DaySessions(allSessions, selectedGroupId, day) ==
    LET displayedSessions == SelectSeq(allSessions, LAMBDA s : s.groupId = selectedGroupId)
        ofDay == SelectSeq(displayedSessions, LAMBDA s : s.day = day)
    IN  [i \in 1..Len(ofDay) |-> EnrichedSession(ofDay[i])]

\* `for (const session of daySessions)` from index i on: the groups found so
\* far, processedSessions holding the ids of their members
RECURSIVE DayGroups(_, _, _, _)
DayGroups(daySessions, i, processedSessions, groups) ==
    IF i > Len(daySessions) THEN groups
    ELSE IF daySessions[i].id \in processedSessions
         THEN DayGroups(daySessions, i + 1, processedSessions, groups)
         ELSE LET group == findOverlappingGroup(daySessions[i], daySessions)
              IN  DayGroups(daySessions, i + 1,
                            processedSessions \cup {group[k].id : k \in 1..Len(group)},
                            Append(groups, group))

\* a geometry that takes the gap off every width
Geometry_AlwaysGap(s, layout) ==
    LET colIndex == layout.sessionColumns[s.id]
        width == Frac(100, layout.maxColumns)
    IN  [top |-> FracTimes(s.start, minuteToPx),
         height |-> FracTimes(s.duration.n, minuteToPx),
         left |-> FracTimes(colIndex, width),
         width |-> FracMinus(width, Frac(1, 2))]

\* the entry sessionLayoutMap.set(s.id, ...) stores for s
Geometry(s, layout) ==
    LET colIndex == layout.sessionColumns[s.id]
        width == Frac(100, layout.maxColumns)
    IN  [top |-> FracTimes(s.start, minuteToPx),
         height |-> FracTimes(s.duration.n, minuteToPx),
         left |-> FracTimes(colIndex, width),
         width |-> IF layout.maxColumns > 1 THEN FracMinus(width, Frac(1, 2)) ELSE width]

\* group.forEach(s => sessionLayoutMap.set(s.id, ...)) from index k on
RECURSIVE SetGroup(_, _, _, _)
SetGroup(map, group, k, layout) ==
    IF k > Len(group) THEN map
    ELSE SetGroup(MapSet(map, group[k].id, Geometry(group[k], layout)),
                  group, k + 1, layout)

RECURSIVE SetGroups(_, _, _)
SetGroups(map, groups, g) ==
    IF g > Len(groups) THEN map
    ELSE SetGroups(SetGroup(map, groups[g], 1, layoutGroup(groups[g])), groups, g + 1)

\* DAYS_OF_WEEK.forEach(day => ...) from day d on
RECURSIVE SetDays(_, _, _, _)
SetDays(map, allSessions, selectedGroupId, d) ==
    IF d > Len(DAYS_OF_WEEK) THEN map
    ELSE SetDays(SetGroups(map,
                           DayGroups(DaySessions(allSessions, selectedGroupId,
                                                 DAYS_OF_WEEK[d]), 1, {}, <<>>),
                           1),
                 allSessions, selectedGroupId, d + 1)

\* the useMemo value of the page for the sessions in memory and a selected group
laidOutSessions(selectedGroupId) ==
    IF selectedGroupId = "" THEN <<>>
    ELSE SetDays(<<>>, sessions, selectedGroupId, 1)

\* sessions the layout specification lays out, and slots it offers from 08:00 on
MaxLaidOut == 3
NumLayoutSlots == 3

LayoutSlots == {GRANULAR_TIME_SLOTS[i] : i \in 0..(NumLayoutSlots - 1)}

LayoutDurations == {NumberDuration(DURATION_OPTIONS[2]), NumberDuration(DURATION_OPTIONS[3])}

LayoutPlacements ==
    [groupId : Groups, subjectId : SubjectIds, courseId : {Undefined},
     day : Days, timeSlot : LayoutSlots, classroom : {<<"A">>},
     duration : LayoutDurations]

LayoutSessionLists(maxLen) ==
    UNION {{[i \in 1..n |-> WithId(ps[i], i)] : ps \in [1..n -> LayoutPlacements]}
            : n \in 0..maxLen}

\* 09:00-10:00, 09:30-10:30 and 10:15-11:00 of one group on one day
ChainExample ==
    <<Session(1, "g1", "sub1", Undefined, DAYS_OF_WEEK[1],
              <<"0", "9", ":", "0", "0">>, <<"A">>, NumberDuration(DURATION_OPTIONS[3])),
      Session(2, "g1", "sub1", Undefined, DAYS_OF_WEEK[1],
              <<"0", "9", ":", "3", "0">>, <<"A">>, NumberDuration(DURATION_OPTIONS[3])),
      Session(3, "g1", "sub1", Undefined, DAYS_OF_WEEK[1],
              <<"1", "0", ":", "1", "5">>, <<"A">>, NumberDuration(DURATION_OPTIONS[2]))>>

InitLayout ==
    /\ sessions \in LayoutSessionLists(MaxLaidOut) \cup {ChainExample}
    /\ isDirty = FALSE
    /\ draggingSessionId = <<>>
    /\ hoveredCell = <<>>
    /\ isDropInvalid = FALSE
    /\ sessionToDelete = <<>>
    /\ schools = [id \in {SchoolId} |->
                    School(sessions, <<>>, InitialSubjects, InitialCourses)]
    /\ db = schools
    /\ nextId = Len(sessions)
    /\ nextAppId = 0
    /\ pending = <<>>
    /\ rejected = <<>>

\* the sessions in memory change by copies and by drops on the first cell of
\* the second day, the useMemo value with them
NextLayout ==
    \/ \E s \in Range(sessions) : handleDuplicateSession(s.id)
    \/ \E s \in Range(sessions) :
            handleDrop(s.id, DAYS_OF_WEEK[2], GRANULAR_TIME_SLOTS[0])

SpecLayout == InitLayout /\ [][NextLayout]_vars

-----------------------------------------------------------------------------
(* Handlers holding an identifier the list has lost: a save resolves while  *)
(* a modal is open or a drag is under way and the [school] effect reloads   *)
(* the editor without the sessions added since; and store calls for a       *)
(* school the store does not hold                                           *)

\* a school id no tenant has
AbsentSchoolId == "school2"

\* the session the edit modal was opened on, under an identifier handed out
\* earlier; the submit keeps its id only
ModalSession(id) ==
    Session(id, "g1", "sub1", Undefined, DAYS_OF_WEEK[1], GRANULAR_TIME_SLOTS[0],
            <<"A">>, DefaultDuration)

\* updateSchedule of AppLogic up to the await of modifySchool: for a school
\* that is not found modifySchool returns before db.putSchool
updateScheduleCall(schoolId, newSessions) ==
    /\ pending = <<>>
    /\ IF schoolId \in DOMAIN schools
       THEN modifySchoolCall("updateSchedule", schoolId,
                             updateScheduleMod(schools[schoolId], newSessions))
       ELSE /\ rejected' = <<>>
            /\ UNCHANGED pending
    /\ UNCHANGED <<sessions, isDirty, draggingSessionId, hoveredCell, isDropInvalid,
                   sessionToDelete, schools, db, nextId, nextAppId>>

HandedOut == 1..nextId

NextStale ==
    \/ \E data \in PlainForms : handleSessionFormSubmit("add", <<>>, data, TRUE)
    \/ \E id \in HandedOut, data \in PlainForms :
            handleSessionFormSubmit("edit", ModalSession(id), data, TRUE)
    \/ \E id \in HandedOut : handleDuplicateSession(id)
    \/ \E id \in HandedOut, t \in FirstSlots : handleDrop(id, DAYS_OF_WEEK[2], t)
    \/ \E s \in Range(sessions) : openDeleteConfirmation(s.id)
    \/ confirmDeleteSession
    \/ handleSaveCall
    \/ \E schoolId \in {SchoolId, AbsentSchoolId} : updateScheduleCall(schoolId, sessions)
    \/ putSchoolResolves
    \/ putSchoolRejects

SpecStale == Init /\ [][NextStale]_vars

-----------------------------------------------------------------------------
(* The editor over every slot of the grid: the time select of the form and  *)
(* the cells of the grid offer GRANULAR_TIME_SLOTS, 08:00 to 22:30          *)

AllSlots == {GRANULAR_TIME_SLOTS[i] : i \in DOMAIN GRANULAR_TIME_SLOTS}

SlotForms == {[BaseForm EXCEPT !.timeSlot = t] : t \in AllSlots}

NextSlots ==
    \/ \E data \in SlotForms : handleSessionFormSubmit("add", <<>>, data, TRUE)
    \/ \E s \in Range(sessions), data \in SlotForms :
            handleSessionFormSubmit("edit", s, data, TRUE)
    \/ \E s \in Range(sessions) : handleDuplicateSession(s.id)
    \/ \E s \in Range(sessions), t \in AllSlots : handleDrop(s.id, DAYS_OF_WEEK[2], t)

SpecSlots == Init /\ [][NextSlots]_vars

-----------------------------------------------------------------------------
(* Several store calls in flight: the Courses page does not await           *)
(* addSubject, addCourse or updateSubject, so a second call can start       *)
(* while db.putSchool of the first is pending                               *)

\* store calls that may be in flight together
MaxInFlight == 2

\* modifySchool up to its await, whatever is in flight: `schools` is the state
\* of the last render, which no pending call has changed yet
modifySchoolQueued(caller, schoolId, modifiedSchool) ==
    /\ schoolId \in DOMAIN schools
    /\ Len(pending) < MaxInFlight
    /\ pending' = Append(pending, [caller |-> caller, school |-> modifiedSchool])
    /\ rejected' = <<>>

\* addSubject up to the await of modifySchool
addSubjectCall(schoolId, subject, sessionData) ==
    /\ nextAppId + 1 + Len(sessionData) <= MaxEntityIds
    /\ modifySchoolQueued("addSubject", schoolId,
                          addSubjectMod(schools[schoolId], subject, sessionData, nextAppId))
    /\ nextAppId' = nextAppId + 1 + Len(sessionData)
    /\ UNCHANGED <<sessions, isDirty, draggingSessionId, hoveredCell, isDropInvalid,
                   sessionToDelete, schools, db, nextId>>

\* addCourse up to the await of modifySchool
addCourseCall(schoolId, course, sessionData) ==
    /\ nextAppId + 1 + Len(sessionData) <= MaxEntityIds
    /\ modifySchoolQueued("addCourse", schoolId,
                          addCourseMod(schools[schoolId], course, sessionData, nextAppId))
    /\ nextAppId' = nextAppId + 1 + Len(sessionData)
    /\ UNCHANGED <<sessions, isDirty, draggingSessionId, hoveredCell, isDropInvalid,
                   sessionToDelete, schools, db, nextId>>

\* updateSubject up to the await of modifySchool
updateSubjectCall(schoolId, subject) ==
    /\ modifySchoolQueued("updateSubject", schoolId,
                          updateSubjectMod(schools[schoolId], subject))
    /\ UNCHANGED <<sessions, isDirty, draggingSessionId, hoveredCell, isDropInvalid,
                   sessionToDelete, schools, db, nextId, nextAppId>>

\* the subject form in edit mode: a subject of the school under another colour
EditedSubjects ==
    {[school.subjects[i] EXCEPT !.color = c] : i \in 1..Len(school.subjects), c \in Colors}

NextInFlight ==
    \/ \E sessionData \in OccurrenceLists :
            addSubjectCall(SchoolId, [classroom |-> <<"A">>, color |-> "#dbeafe"], sessionData)
    \/ \E sessionData \in OccurrenceLists :
            addCourseCall(SchoolId, [color |-> "#dbeafe"], sessionData)
    \/ \E subject \in EditedSubjects : updateSubjectCall(SchoolId, subject)
    \/ putSchoolResolves
    \/ putSchoolRejects

SpecInFlight == Init /\ [][NextInFlight]_vars

-----------------------------------------------------------------------------
(* Moves alone, from every stored list in which no two sessions conflict    *)

\* durations as the type declares them, and one a form's select has left
MoveDurations == TypedDurations \cup {StringDuration(DURATION_OPTIONS[1])}

\* classroom labels: equal up to case and blanks, and blank
MoveClassrooms == {<<"A">>, <<"a", " ">>, <<" ">>}

MovePlacements ==
    [groupId : Groups, subjectId : SubjectIds, courseId : {Undefined},
     day : Days, timeSlot : Slots, classroom : MoveClassrooms, duration : MoveDurations]

MoveSessionLists(maxLen) ==
    UNION {{[i \in 1..n |-> WithId(ps[i], i)] : ps \in [1..n -> MovePlacements]}
            : n \in 0..maxLen}

\* two sessions of one day whose intervals, in minutes, strictly overlap and
\* that share the group or the classroom (trimmed, lower-cased, not blank)
Conflicting(a, b) ==
    /\ a.id # b.id
    /\ a.day = b.day
    /\ timeToMinutes(a.timeSlot) < timeToMinutes(b.timeSlot) + b.duration.n
    /\ timeToMinutes(a.timeSlot) + a.duration.n > timeToMinutes(b.timeSlot)
    /\ \/ a.groupId = b.groupId
       \/ /\ ToLowerCase(Trim(a.classroom)) = ToLowerCase(Trim(b.classroom))
          /\ Trim(a.classroom) # <<>>

ConflictFree(list) == \A a \in Range(list), b \in Range(list) : ~Conflicting(a, b)

InitMoves ==
    /\ sessions \in {list \in MoveSessionLists(MaxProbe) : ConflictFree(list)}
    /\ isDirty = FALSE
    /\ draggingSessionId = <<>>
    /\ hoveredCell = <<>>
    /\ isDropInvalid = FALSE
    /\ sessionToDelete = <<>>
    /\ schools = [id \in {SchoolId} |->
                    School(sessions, <<>>, InitialSubjects, InitialCourses)]
    /\ db = schools
    /\ nextId = Len(sessions)
    /\ nextAppId = 0
    /\ pending = <<>>
    /\ rejected = <<>>

NextMoves == \E s \in Range(sessions), c \in Cells : handleDrop(s.id, c.day, c.time)

SpecMoves == InitMoves /\ [][NextMoves]_vars

-----------------------------------------------------------------------------
(* Vocabulary of the properties *)

StartOf(s) == timeToMinutes(s.timeSlot)

\* the end of a session whose duration is a number
EndOf(s) == StartOf(s) + s.duration.n

\* the candidate interval of session a dropped on cell c
CandidateStart(c) == timeToMinutes(c.time)
CandidateEnd(a, c) == timeToMinutes(c.time) + a.duration.n

StrictOverlap(start1, end1, start2, end2) == start1 < end2 /\ end1 > start2

NormalisedRoom(s) == ToLowerCase(Trim(s.classroom))

\* session a is being dragged and hovers over cell c
Hovering(a, c) == draggingSessionId = <<a.id>> /\ hoveredCell = <<c>>

CellOf(s) == [day |-> s.day, time |-> s.timeSlot]

\* b stands on the day of cell c and overlaps the interval a would take there
OverlapsCandidate(b, a, c) ==
    /\ b.id # a.id
    /\ b.day = c.day
    /\ StrictOverlap(CandidateStart(c), CandidateEnd(a, c), StartOf(b), EndOf(b))

-----------------------------------------------------------------------------
(* C1: for two distinct sessions of one group, a drag of either over the    *)
(* other's day and start time is reported as a conflict, whatever their     *)
(* classrooms.                                                              *)
C1_SameGroupConflict ==
    \A a \in Range(sessions), b \in Range(sessions) :
        (a.id # b.id /\ a.groupId = b.groupId /\ Hovering(a, CellOf(b)))
            => isDropInvalid

C1_Witness ==
    \E a \in Range(sessions), b \in Range(sessions) :
        /\ a.id # b.id
        /\ a.groupId = b.groupId
        /\ NormalisedRoom(a) # NormalisedRoom(b)
        /\ CellOf(a) # CellOf(b)
        /\ Hovering(a, CellOf(b))
        /\ isDropInvalid

(* C2: a drag over a cell is reported as a conflict whenever another        *)
(* session of that day strictly overlaps the candidate interval and has the *)
(* same non-empty classroom after trim and lower-casing, also when the      *)
(* groups differ.                                                           *)
C2_SameClassroomConflict ==
    \A a \in Range(sessions), c \in Cells :
        (/\ Hovering(a, c)
         /\ \E b \in Range(sessions) :
                /\ OverlapsCandidate(b, a, c)
                /\ NormalisedRoom(b) = NormalisedRoom(a)
                /\ NormalisedRoom(b) # <<>>)
            => isDropInvalid

C2_Witness ==
    \E a \in Range(sessions), b \in Range(sessions), c \in Cells :
        /\ Hovering(a, c)
        /\ OverlapsCandidate(b, a, c)
        /\ b.groupId # a.groupId
        /\ b.classroom # a.classroom
        /\ NormalisedRoom(b) = NormalisedRoom(a)
        /\ NormalisedRoom(b) # <<>>
        /\ isDropInvalid

-----------------------------------------------------------------------------
(* C4: in every state reached through add, edit, duplicate, move and       *)
(* delete, no session conflicts with the list when placed on its own day    *)
(* and time slot.                                                           *)
C4_NoSelfConflict ==
    \A s \in Range(sessions) : ~isConflict(s.id, s.day, s.timeSlot, sessions)

(* C5: a drop for which isConflict is true is rejected: the session list    *)
(* and the dirty flag stay as they were.  A drop never touches the store,   *)
(* the id counters or the delete modal, so only the steps that leave those  *)
(* alone can be drops.                                                      *)
SmallCells == [day : Days, time : FirstSlots]

C5_ConflictingDropRejected ==
    [][UNCHANGED <<schools, db, nextId, nextAppId, rejected, sessionToDelete>>
          => \A id \in SessionIds, c \in SmallCells :
                (isConflict(id, c.day, c.time, sessions) /\ handleDrop(id, c.day, c.time))
                    => (sessions' = sessions /\ isDirty' = isDirty)]_vars

\* a saved, clean list on which a drop would conflict
C5_Witness ==
    /\ ~isDirty
    /\ sessionToDelete = <<>>
    /\ \E s \in Range(sessions), c \in SmallCells :
            c # CellOf(s) /\ isConflict(s.id, c.day, c.time, sessions)

(* C6: an add or an edit submitted through the form whose placement         *)
(* overlaps a same-group or same-classroom session of that day is rejected: *)
(* the session list is unchanged.                                           *)
\* the placement of the form is taken by a session other than `own`
PlacementTaken(data, own) ==
    \E i \in 1..Len(sessions) :
        LET t == sessions[i] IN
        /\ <<t.id>> # own
        /\ t.day = data.day
        /\ StrictOverlap(timeToMinutes(data.timeSlot),
                         timeToMinutes(data.timeSlot) + data.duration.n,
                         StartOf(t), EndOf(t))
        /\ \/ t.groupId = data.groupId
           \/ SameClassroom(t.classroom, data.classroom)

C6_ConflictingFormRejected ==
    [][/\ \A data \in CompleteForms :
            (PlacementTaken(data, <<>>)
                /\ handleSessionFormSubmit("add", <<>>, data, TRUE))
                => sessions' = sessions
       /\ \A s \in Range(sessions), data \in CompleteForms :
            (PlacementTaken(data, <<s.id>>)
                /\ handleSessionFormSubmit("edit", s, data, TRUE))
                => sessions' = sessions]_vars

(* C7: after any sequence of recordAttendance calls, also calls whose batch *)
(* names one triple twice, the attendance list holds at most one record per *)
(* (studentId, sessionId, date).                                            *)
NoDuplicateTriples(attendance) ==
    \A i \in 1..Len(attendance), j \in 1..Len(attendance) :
        SameTriple(attendance[i], attendance[j]) => i = j

C7_OneRecordPerTriple ==
    /\ NoDuplicateTriples(schools[SchoolId].attendance)
    /\ NoDuplicateTriples(db[SchoolId].attendance)

\* every triple of the batches is on record, one record each
C7_Witness ==
    /\ Len(db[SchoolId].attendance) = 4
    /\ \E i \in 1..4, j \in 1..4 :
          /\ i # j
          /\ db[SchoolId].attendance[i].studentId = db[SchoolId].attendance[j].studentId
          /\ db[SchoolId].attendance[i].sessionId = db[SchoolId].attendance[j].sessionId

(* C8: recordAttendance of a record whose triple is on record changes the   *)
(* status of that record only: same id, same place, no record added, the    *)
(* others untouched; with the status already stored the list is unchanged.  *)
C8_UpsertKeepsRecord ==
    [][\A r \in BatchRecords : \A i \in 1..Len(school.attendance) :
          (SameTriple(school.attendance[i], r) /\ recordAttendance(SchoolId, <<r>>))
              => /\ schools'[SchoolId].attendance =
                        [school.attendance EXCEPT ![i].status = r.status]
                 /\ db'[SchoolId].attendance = schools'[SchoolId].attendance
                 /\ nextAppId' = nextAppId
                 /\ r.status = school.attendance[i].status
                        => schools'[SchoolId].attendance = school.attendance]_vars

\* a record stands between two others and reads "absent"
C8_Witness ==
    /\ Len(school.attendance) = 3
    /\ school.attendance[2].status = "absent"
    /\ school.attendance[2].id = 2

(* C9: saving the schedule, also after a session was deleted, leaves the    *)
(* attendance list of the tenant as it was, in memory and in storage.       *)
C9_SaveKeepsAttendance ==
    [][handleSave =>
          /\ schools'[SchoolId].attendance = schools[SchoolId].attendance
          /\ db'[SchoolId].attendance = db[SchoolId].attendance]_vars

\* saved and clean, with attendance on record for a session the stored
\* schedule does not list
C9_Witness ==
    /\ ~isDirty
    /\ nextId = MaxIds
    /\ Len(db[SchoolId].scheduledSessions) = 1
    /\ \E i \in 1..Len(db[SchoolId].attendance) :
          \A j \in 1..Len(db[SchoolId].scheduledSessions) :
              db[SchoolId].scheduledSessions[j].id # db[SchoolId].attendance[i].sessionId

(* C10: every accepted add, edit, move, duplicate or delete makes the       *)
(* editor dirty; once dirty it stays dirty until a save succeeds, no other  *)
(* operation returns it to clean; and when it becomes clean the stored      *)
(* session list is the one in memory.                                       *)
C10_DirtyUntilSave ==
    [][/\ (schools' = schools /\ sessions' # sessions) => isDirty'
       /\ (isDirty /\ ~isDirty') => handleSave
       /\ (isDirty /\ ~isDirty') => db'[SchoolId].scheduledSessions = sessions']_vars

C12_OptimisticUpdate ==
    [][/\ pending' # <<>> => schools'[SchoolId] = pending'[1].school
       /\ putSchoolRejects
            => (schools'[SchoolId] = pending[1].school /\ rejected' # <<>>)]_vars

(* C13: in every state reached through form add, form edit (also one that   *)
(* switches between subject and course), duplicate, move, delete, and       *)
(* addSubject and addCourse with occurrences, every session has exactly one *)
(* of subjectId and courseId set to a non-empty id.                         *)
HasReference(ref) == ref # Undefined /\ ref # ""

ExactlyOneReference(s) == HasReference(s.subjectId) # HasReference(s.courseId)

C13_ExactlyOneReference ==
    /\ \A s \in Range(sessions) : ExactlyOneReference(s)
    /\ \A s \in Range(schools[SchoolId].scheduledSessions) : ExactlyOneReference(s)
    /\ \A s \in Range(db[SchoolId].scheduledSessions) : ExactlyOneReference(s)

\* an occurrence of a new course stands in the editor, edited to a subject,
\* next to a session the form added for a course
C13_Witness ==
    /\ \E s \in Range(sessions) :
            s.id < 0 /\ s.subjectId = "sub1" /\ s.courseId = Undefined
    /\ \E s \in Range(sessions) :
            s.id > 0 /\ s.courseId = "c1" /\ s.subjectId = Undefined

-----------------------------------------------------------------------------
(* Vocabulary of the layout properties *)

\* the overlap groups the pass forms for a selected group and a day
PassGroups(g, day) == DayGroups(DaySessions(sessions, g, day), 1, {}, <<>>)

AllPassGroups == UNION {Range(PassGroups(g, day)) : g \in Groups, day \in Days}

ColumnOf(group, s) == layoutGroup(group).sessionColumns[s.id]

Overlapping(a, b) == a.id # b.id /\ StrictOverlap(a.start, a.end, b.start, b.end)

Disjoint(a, b) == a.end <= b.start \/ b.end <= a.start

(* C14: in every overlap group laid out by layoutGroup, two distinct         *)
(* sessions with the same column index have disjoint intervals.              *)
C14_SameColumnDisjoint ==
    \A group \in AllPassGroups :
        \A a \in Range(group), b \in Range(group) :
            (a.id # b.id /\ ColumnOf(group, a) = ColumnOf(group, b)) => Disjoint(a, b)

\* a group in which a column is used twice
C14_Witness ==
    \E group \in AllPassGroups :
        \E a \in Range(group), b \in Range(group) :
            a.id # b.id /\ ColumnOf(group, a) = ColumnOf(group, b)

(* C15: in any overlap group, pairwise overlapping or only chained, no two  *)
(* sessions receive the same column index.                                  *)
C15_AllColumnsDistinct ==
    \A group \in AllPassGroups :
        \A a \in Range(group), b \in Range(group) :
            a.id # b.id => ColumnOf(group, a) # ColumnOf(group, b)

PairwiseOverlapping(group) ==
    \A a \in Range(group), b \in Range(group) : a.id # b.id => Overlapping(a, b)

(* C15 as amended: in an overlap group whose sessions overlap pairwise no    *)
(* two sessions receive the same column index; in a group that is only      *)
(* chained two sessions may share a column, and then they do not overlap    *)
(* each other but both overlap sessions of other columns.                   *)
C15_PairwiseColumnsDistinct ==
    \A group \in AllPassGroups :
        /\ PairwiseOverlapping(group) =>
                \A a \in Range(group), b \in Range(group) :
                    a.id # b.id => ColumnOf(group, a) # ColumnOf(group, b)
        /\ \A a \in Range(group), b \in Range(group) :
                (a.id # b.id /\ ColumnOf(group, a) = ColumnOf(group, b))
                    => /\ ~Overlapping(a, b)
                       /\ \E c \in Range(group) :
                            Overlapping(a, c) /\ ColumnOf(group, c) # ColumnOf(group, a)
                       /\ \E c \in Range(group) :
                            Overlapping(b, c) /\ ColumnOf(group, c) # ColumnOf(group, b)

\* three sessions overlapping pairwise stand in three columns
C15_Witness ==
    \E group \in AllPassGroups :
        /\ Len(group) = 3
        /\ PairwiseOverlapping(group)
        /\ {ColumnOf(group, group[k]) : k \in 1..3} = {0, 1, 2}

(* C16: maxColumns of layoutGroup is the largest number of sessions of the   *)
(* group in progress at one instant, and the column indices used are        *)
(* exactly 0..maxColumns-1.                                                 *)
InProgressAt(group, t) ==
    Cardinality({k \in 1..Len(group) : group[k].start <= t /\ t < group[k].end})

\* a largest number in progress is reached at the start of some session
MaxInProgress(group) ==
    CHOOSE n \in 1..Len(group) :
        /\ \E k \in 1..Len(group) : InProgressAt(group, group[k].start) = n
        /\ \A k \in 1..Len(group) : InProgressAt(group, group[k].start) <= n

C16_MinimalColumns ==
    \A group \in AllPassGroups :
        /\ layoutGroup(group).maxColumns = MaxInProgress(group)
        /\ {ColumnOf(group, group[k]) : k \in 1..Len(group)}
                = 0..(layoutGroup(group).maxColumns - 1)

\* three sessions laid out in two columns
C16_Witness ==
    \E group \in AllPassGroups :
        Len(group) = 3 /\ layoutGroup(group).maxColumns = 2

(* C17: the groups of the pass are the connected components of the strict    *)
(* overlap relation among the displayed sessions of a day: every displayed  *)
(* session is in exactly one group and has exactly one geometry entry. For  *)
(* 09:00-10:00, 09:30-10:30, 10:15-11:00: one group, two columns, the first *)
(* two in different columns, the third in the column of the first.          *)
RECURSIVE Component(_, _)
Component(members, daySessions) ==
    LET grown == members \cup
                    {o \in Range(daySessions) : \E c \in members : Overlapping(c, o)}
    IN  IF grown = members THEN members ELSE Component(grown, daySessions)

DisplayedIds(g) == {s.id : s \in {t \in Range(sessions) : t.groupId = g}}

C17_GroupsAreComponents ==
    /\ \A g \in Groups, day \in Range(DAYS_OF_WEEK) :
        LET daySessions == DaySessions(sessions, g, day)
            groups == PassGroups(g, day)
        IN  /\ \A s \in Range(daySessions) :
                    Cardinality({k \in 1..Len(groups) : s \in Range(groups[k])}) = 1
            /\ \A k \in 1..Len(groups) :
                    /\ Range(groups[k]) = Component({groups[k][1]}, daySessions)
                    /\ Cardinality(Range(groups[k])) = Len(groups[k])
    /\ \A g \in Groups : DOMAIN laidOutSessions(g) = DisplayedIds(g)
    /\ sessions = ChainExample =>
        LET groups == PassGroups("g1", DAYS_OF_WEEK[1]) IN
        /\ Len(groups) = 1
        /\ Len(groups[1]) = 3
        /\ layoutGroup(groups[1]).maxColumns = 2
        /\ layoutGroup(groups[1]).sessionColumns[1] # layoutGroup(groups[1]).sessionColumns[2]
        /\ layoutGroup(groups[1]).sessionColumns[3] = layoutGroup(groups[1]).sessionColumns[1]

\* the three sessions of the example are laid out
C17_Witness ==
    /\ sessions = ChainExample
    /\ DOMAIN laidOutSessions("g1") = {1, 2, 3}

(* C18: a session that overlaps no other session of its day gets width 100  *)
(* and left offset 0; a session of a group with maxColumns > 1 gets width    *)
(* 100/maxColumns - 0.5 and left offset columnIndex * 100/maxColumns.       *)
OverlapsNone(s) ==
    \A t \in Range(sessions) :
        (t.id # s.id /\ t.day = s.day)
            => ~StrictOverlap(StartOf(s), EndOf(s), StartOf(t), EndOf(t))

-----------------------------------------------------------------------------
(* C19: duplicate(id) of an existing session appends exactly one session     *)
(* whose fields equal the original's except id, which differs from every id *)
(* of the list; the existing sessions are unchanged; the copy is accepted   *)
(* without a conflict check although it conflicts with its original.        *)
C19_DuplicateAppendsCopy ==
    [][\A s \in Range(sessions) :
          handleDuplicateSession(s.id)
              => /\ Len(sessions') = Len(sessions) + 1
                 /\ SubSeq(sessions', 1, Len(sessions)) = sessions
                 /\ [sessions'[Len(sessions')] EXCEPT !.id = s.id] = s
                 /\ \A t \in Range(sessions) : t.id # sessions'[Len(sessions')].id
                 /\ isDirty'
                 /\ isConflict(sessions'[Len(sessions')].id, s.day, s.timeSlot,
                               sessions')]_vars

\* the list ends with a copy of its first session under another id
C19_Witness ==
    /\ Len(sessions) = 2
    /\ sessions[2].id # sessions[1].id
    /\ [sessions[2] EXCEPT !.id = sessions[1].id] = sessions[1]
    /\ isDirty

(* C20: recording attendance does not change the schedule: after            *)
(* recordAttendance the stored session list and the session list of the     *)
(* editor, unsaved edits included, are what they were before the call.      *)
C20_AttendanceKeepsSchedule ==
    [][\A s \in Range(sessions) : \A records \in SmallAttendanceData(s) :
          handleSaveAttendance(s, records)
              => /\ sessions' = sessions
                 /\ db'[SchoolId].scheduledSessions = db[SchoolId].scheduledSessions
                 /\ schools'[SchoolId].scheduledSessions
                        = schools[SchoolId].scheduledSessions]_vars

-----------------------------------------------------------------------------
(* C21: a session form submit, add or edit, in which entity id, day, time   *)
(* slot, classroom or group is empty is rejected before any mutation: the   *)
(* session list, the dirty flag and the subjects and courses in memory and  *)
(* in storage are unchanged.                                                *)
HasEmptyField(data) ==
    \/ data.entityId = ""
    \/ data.day = ""
    \/ data.timeSlot = <<>>
    \/ data.classroom = <<>>
    \/ data.groupId = ""

C21_IncompleteFormRejected ==
    [][\A data \in WideForms :
          HasEmptyField(data) =>
            /\ handleSessionFormSubmit("add", <<>>, data, TRUE)
                    => UNCHANGED <<sessions, isDirty, schools, db>>
            /\ \A s \in Range(sessions) :
                    handleSessionFormSubmit("edit", s, data, TRUE)
                        => UNCHANGED <<sessions, isDirty, schools, db>>]_vars

\* an editor with a session to edit and room for one more, where a form with
\* an empty field and another colour can be submitted
C21_Witness ==
    /\ NoModal
    /\ Len(sessions) = 1
    /\ nextId < MaxIds
    /\ \E data \in WideForms :
            /\ HasEmptyField(data)
            /\ data.entityId # ""
            /\ ColorChanged(data)

-----------------------------------------------------------------------------
(* C22: a move, duplicate, edit or delete that names a session id no longer *)
(* in the list is a no-op, the session list and the dirty flag unchanged;   *)
(* and a tenant mutation for a school id that is not present changes        *)
(* neither the schools in memory nor storage.                               *)
Absent(id) == FindSession(sessions, id) = <<>>

C22_MoveDuplicateNoOp ==
    \A id \in SessionIds :
        Absent(id) =>
            /\ \A c \in Cells :
                    handleDrop(id, c.day, c.time) => UNCHANGED <<sessions, isDirty>>
            /\ handleDuplicateSession(id) => UNCHANGED <<sessions, isDirty>>

C22_EditDeleteNoOp ==
    /\ \A id \in SessionIds, data \in PlainForms :
            (Absent(id) /\ handleSessionFormSubmit("edit", ModalSession(id), data, TRUE))
                => UNCHANGED <<sessions, isDirty>>
    /\ (confirmDeleteSession /\ Absent(sessionToDelete[1]))
            => UNCHANGED <<sessions, isDirty>>

C22_AbsentSchoolNoOp ==
    updateScheduleCall(AbsentSchoolId, sessions) => UNCHANGED <<schools, db, pending>>

C22_AbsentIdIsNoOp ==
    [][C22_MoveDuplicateNoOp /\ C22_EditDeleteNoOp /\ C22_AbsentSchoolNoOp]_vars

-----------------------------------------------------------------------------
(* C23: addSubject (addCourse) with k occurrences produces in one snapshot  *)
(* a tenant with exactly one new subject (course) and exactly k new         *)
(* sessions, each under a fresh id and bound to the new entity's id; memory *)
(* and storage receive that one snapshot, so the entity is nowhere without  *)
(* its sessions; the sessions that were there are unchanged, in their       *)
(* order.                                                                   *)
Ids(list) == {list[i].id : i \in 1..Len(list)}

\* `new` is `old` with k sessions appended: fresh ids, the fields of the
\* occurrences, bound to the entity
AppendsOccurrences(old, new, sessionData, subjectId, courseId) ==
    LET n == Len(old.scheduledSessions)
        k == Len(sessionData)
    IN  /\ Len(new.scheduledSessions) = n + k
        /\ SubSeq(new.scheduledSessions, 1, n) = old.scheduledSessions
        /\ Cardinality(Ids(new.scheduledSessions) \ Ids(old.scheduledSessions)) = k
        /\ \A i \in 1..k :
            LET added == new.scheduledSessions[n + i] IN
            /\ added.id \notin Ids(old.scheduledSessions) \cup Ids(sessions)
            /\ added.subjectId = subjectId
            /\ added.courseId = courseId
            /\ added.day = sessionData[i].day
            /\ added.timeSlot = sessionData[i].timeSlot
            /\ added.classroom = sessionData[i].classroom
            /\ added.duration = sessionData[i].duration
            /\ added.groupId = sessionData[i].groupId

\* `new` is `old` with one entity appended under an id no entity of `old` has
AppendsEntity(old, new) ==
    /\ Len(new) = Len(old) + 1
    /\ SubSeq(new, 1, Len(old)) = old
    /\ new[Len(new)].id \notin Ids(old)

C23_EntityWithItsSessions ==
    [][\A sessionData \in OccurrenceLists :
        LET old == schools[SchoolId]
            new == schools'[SchoolId]
        IN  /\ addSubject(SchoolId, [classroom |-> <<"A">>, color |-> "#dbeafe"], sessionData)
                => /\ AppendsEntity(old.subjects, new.subjects)
                   /\ new.courses = old.courses
                   /\ AppendsOccurrences(old, new, sessionData,
                                         new.subjects[Len(new.subjects)].id, Undefined)
                   /\ db'[SchoolId] = new
            /\ addCourse(SchoolId, [color |-> "#dbeafe"], sessionData)
                => /\ AppendsEntity(old.courses, new.courses)
                   /\ new.subjects = old.subjects
                   /\ AppendsOccurrences(old, new, sessionData,
                                         Undefined, new.courses[Len(new.courses)].id)
                   /\ db'[SchoolId] = new]_vars

\* a subject added with two occurrences behind the two sessions of the stored
\* schedule
C23_Witness ==
    /\ Len(db[SchoolId].subjects) = 2
    /\ Len(db[SchoolId].scheduledSessions) = 4
    /\ db[SchoolId].scheduledSessions[1].id = 1
    /\ db[SchoolId].scheduledSessions[2].id = 2
    /\ db[SchoolId].scheduledSessions[3].subjectId = db[SchoolId].subjects[2].id
    /\ db[SchoolId].scheduledSessions[4].subjectId = db[SchoolId].subjects[2].id
    /\ db[SchoolId].scheduledSessions[3].id # db[SchoolId].scheduledSessions[4].id
    /\ schools = db

-----------------------------------------------------------------------------
(* C24: in every state reached through form add, form edit, move and        *)
(* duplicate, the start of every session as timeToMinutes converts it lies  *)
(* within the day of the grid, 0 <= start < 900 (08:00 to before 23:00),    *)
(* and is a multiple of the 30-minute granularity; timeToMinutes("08:00")   *)
(* is 0.                                                                    *)
DayEnd == (23 - 8) * 60

C24_StartsOnTheGrid ==
    /\ \A s \in Range(sessions) :
            /\ 0 <= StartOf(s)
            /\ StartOf(s) < DayEnd
            /\ StartOf(s) % TIME_GRID_INTERVAL = 0
    /\ timeToMinutes(<<"0", "8", ":", "0", "0">>) = 0

\* a session added at 22:30 and its copy moved to 08:00 of the next day
C24_Witness ==
    /\ Len(sessions) = 2
    /\ sessions[1].timeSlot = <<"2", "2", ":", "3", "0">>
    /\ StartOf(sessions[1]) = 870
    /\ sessions[2].day = DAYS_OF_WEEK[2]
    /\ StartOf(sessions[2]) = 0

-----------------------------------------------------------------------------
(* C25: in every state reached through form add and form edit, also after   *)
(* the user changed the duration field of the form, the duration of every   *)
(* session is an integer number of minutes of the allowed set 30, 45, 60,   *)
(* 90, 120, 150, 180, 210, 240, so that start + duration is the numeric end *)
(* of the interval isConflict and the layout use.                           *)
C25_DurationsAreAllowedNumbers ==
    \A s \in Range(sessions) :
        /\ ~s.duration.isString
        /\ s.duration.n \in Range(DURATION_OPTIONS)
        /\ PlusDuration(StartOf(s), s.duration) = StartOf(s) + s.duration.n

-----------------------------------------------------------------------------
(* C26: each tenant mutation is processed to completion before the next is  *)
(* accepted: a second mutation of the school issued while the persistence   *)
(* call of the first is pending starts from a snapshot holding the first's  *)
(* effect, so that after both complete the school in memory and the stored  *)
(* school hold the effects of both: no update is lost.                      *)
EntityIds(s) == Ids(s.subjects) \cup Ids(s.courses)

C26_NoLostUpdate ==
    [][/\ (Len(pending) = 1 /\ Len(pending') = 2)
            => /\ EntityIds(pending[1].school) \subseteq EntityIds(pending'[2].school)
               /\ Ids(pending[1].school.scheduledSessions)
                    \subseteq Ids(pending'[2].school.scheduledSessions)
       /\ EntityIds(db[SchoolId]) \subseteq EntityIds(db'[SchoolId])
       /\ EntityIds(schools[SchoolId]) \subseteq EntityIds(schools'[SchoolId])]_vars

-----------------------------------------------------------------------------
(* C27: the layout is a function of the set of sessions: two lists holding  *)
(* the same sessions in another order, as when two sessions start at the    *)
(* same time, give every session the same column index, left offset and     *)
(* width.                                                                   *)
\* the lists that hold the sessions of `list` in some order
Reordered(list) ==
    {[i \in 1..Len(list) |-> list[f[i]]] :
        f \in {h \in [1..Len(list) -> 1..Len(list)] :
                    \A i, j \in 1..Len(list) : h[i] = h[j] => i = j}}

\* the useMemo value for another list of sessions
LayoutOf(list, selectedGroupId) == SetDays(<<>>, list, selectedGroupId, 1)

C27_LayoutIgnoresOrder ==
    \A g \in Groups : \A list \in Reordered(sessions) :
        LayoutOf(list, g) = laidOutSessions(g)

-----------------------------------------------------------------------------
(* C28: moves preserve conflict-freedom: when no two sessions of the list   *)
(* conflict (same day, strictly overlapping intervals, and the same group   *)
(* or the same non-empty classroom), no two sessions conflict after any     *)
(* sequence of accepted and rejected moves.                                 *)
C28_MovesKeepConflictFree == ConflictFree(sessions)

\* after an accepted move: two sessions of one group on one day, one ending
\* where the other starts, and a drop of one onto the other would conflict
C28_Witness ==
    /\ isDirty
    /\ \E a \in Range(sessions), b \in Range(sessions) :
            /\ a.id # b.id
            /\ a.day = b.day
            /\ a.groupId = b.groupId
            /\ StartOf(a) + a.duration.n = StartOf(b)
            /\ a # schools[SchoolId].scheduledSessions[a.id]
            /\ isConflict(a.id, b.day, b.timeSlot, sessions)

-----------------------------------------------------------------------------
(* C29: when a valid add or edit submitted through the form also changes    *)
(* the colour of the entity, which persists the subject or course first and *)
(* replaces the school object, then once the events are processed the list  *)
(* in memory holds the added or edited session together with every session *)
(* that was unsaved before, and the editor is dirty, whether the [school]   *)
(* effect runs before or after the rest of the submit handler.              *)
C29_ColorSubmitKeepsEdits ==
    [][\A data \in SmallForms, effectFirst \in BOOLEAN :
          ColorChanged(data) =>
            /\ handleSessionFormSubmit("add", <<>>, data, effectFirst)
                    => /\ sessions' = Append(sessions, NewSession(nextId + 1, data))
                       /\ isDirty'
            /\ \A s \in Range(sessions) :
                    handleSessionFormSubmit("edit", s, data, effectFirst)
                        => /\ sessions' = ReplaceSession(sessions, UpdatedSession(s, data))
                           /\ isDirty']_vars

-----------------------------------------------------------------------------
(* C30: an accepted move of a session to (day, timeSlot) changes the day    *)
(* and the timeSlot of that one session only: its id, groupId, subjectId or *)
(* courseId, classroom and duration, every other session, the number of     *)
(* sessions and their order are unchanged; a drop onto the session's own    *)
(* day and time slot changes nothing and does not make the editor dirty.    *)
C30_MoveChangesDayAndSlotOnly ==
    [][\A id \in SessionIds, c \in Cells :
          handleDrop(id, c.day, c.time) =>
            /\ Len(sessions') = Len(sessions)
            /\ \A i \in 1..Len(sessions) :
                    IF sessions[i].id # id
                    THEN sessions'[i] = sessions[i]
                    ELSE /\ sessions'[i].id = sessions[i].id
                         /\ sessions'[i].groupId = sessions[i].groupId
                         /\ sessions'[i].subjectId = sessions[i].subjectId
                         /\ sessions'[i].courseId = sessions[i].courseId
                         /\ sessions'[i].classroom = sessions[i].classroom
                         /\ sessions'[i].duration = sessions[i].duration
                         /\ \/ sessions'[i] = sessions[i]
                            \/ CellOf(sessions'[i]) = c
                         /\ CellOf(sessions[i]) = c => UNCHANGED <<sessions, isDirty>>]_vars

\* the first of two stored sessions has been moved to another day and slot,
\* the second is where it was
C30_Witness ==
    /\ isDirty
    /\ Len(sessions) = 2
    /\ sessions[1].id = 1
    /\ sessions[1].day # schools[SchoolId].scheduledSessions[1].day
    /\ sessions[1].timeSlot # schools[SchoolId].scheduledSessions[1].timeSlot
    /\ sessions[2] = schools[SchoolId].scheduledSessions[2]

====
